---- MODULE Spec2Model ----
(* A model of WATonomous/repo-ingestion: src/src/main.py (the /ingest handler)  *)
(* and src/src/utils.py (payload validation, the pull-request body codec, the   *)
(* file transforms).                                                            *)
(*                                                                              *)
(* Text is a sequence of tokens.  The two sentinel markers of utils.py:113-114  *)
(* are one token each ("P", "Q"): neither contains a newline nor overlaps       *)
(* itself, so an occurrence can start only where the whole marker stands.       *)
(* "n" is a newline, "r" a carriage return, "s" a space, every other token is   *)
(* non-blank text.                                                              *)
EXTENDS Integers, Sequences, FiniteSets, TLC

VARIABLES
    \* main.py:82-86, the process-wide counters
    state,
    \* one run of ingest: where it stands, the request as received, the payload
    \* (whose files transform_file mutates), the file loop's index, the fetched
    \* file, the fetched pull-request list, the remote calls issued, the outcome
    pc, request, payload, idx, existing_file, prs, calls, result,
    \* the GithubException that create_git_ref raised in this run, if it did
    ref_exception,
    \* the remote repository: branches, the tree of each, the open pull requests
    \* of each head
    refs, tree, pulls,
    \* history: the remote as the run found it, the request of the last
    \* successful run while nothing else has touched the remote since and what
    \* that run did to the pull request, whether this run repeats it, the
    \* operator's remaining actions, whether the operator ever opened a pull
    \* request
    found, lastOk, lastPr, replay, budget, operatorOpened,
    \* history: the request of the run a remote failure aborted, while it is
    \* being retried, and the remote as the first run of that request found it
    origin, retryOf,
    \* the codec applied to any text
    cpc, cBody, cNew, cOut, cExt, cOut2,
    \* validate_ingest_payload applied to any rule list and request
    apc, aRules, aPayload, aResult,
    \* utils.py:50-79: the token cache, the clock, the tokens the remote has
    \* issued, the token the last call returned, whether that call asked the
    \* remote for one
    tpc, github_token_cache, now, issued, token, requested,
    \* concurrent runs of ingest, one per worker thread: the locals of each, and
    \* the writes the remote has accepted
    threads, writes

codecVars == <<cpc, cBody, cNew, cOut, cExt, cOut2>>
authVars == <<apc, aRules, aPayload, aResult>>
tokenVars == <<tpc, github_token_cache, now, issued, token, requested>>
concVars == <<threads, writes>>

runVars == <<pc, request, payload, idx, existing_file, prs, calls, result, ref_exception>>
remoteVars == <<refs, tree, pulls>>
historyVars == <<found, lastOk, lastPr, replay, budget, operatorOpened, origin, retryOf>>
ingestVars == <<state, runVars, remoteVars, historyVars>>

vars == <<ingestVars, codecVars, authVars, tokenVars, concVars>>

\* ------------------------------------------------------------------ bounds

MaxBodyLen == 4
MaxNewLen == 1
MaxRules == 2
MaxFiles == 2
MaxRequests == 2
MaxOperatorActions == 1
MaxTransforms == 2
MaxTime == 6
MaxLifetime == 4
MaxTokens == 3
MaxThreads == 2

\* ------------------------------------------------------------- text helpers

pr_body_prefix == "P"
pr_body_postfix == "Q"

Whitespace == {"n", "r", "s"}

Contains(s, c) == \E i \in 1..Len(s) : s[i] = c

\* str.find: the first index of token c in s, 0 when absent
IndexOf(s, c) ==
    IF Contains(s, c) THEN CHOOSE i \in 1..Len(s) : s[i] = c /\ \A j \in 1..(i-1) : s[j] # c
    ELSE 0

\* str.split(sep): the pieces of s between the occurrences of token c
RECURSIVE Split(_, _)
Split(s, c) ==
    IF ~Contains(s, c) THEN <<s>>
    ELSE LET i == IndexOf(s, c)
         IN <<SubSeq(s, 1, i - 1)>> \o Split(SubSeq(s, i + 1, Len(s)), c)

RECURSIVE RStrip(_)
RStrip(s) ==
    IF s # <<>> /\ s[Len(s)] \in Whitespace THEN RStrip(SubSeq(s, 1, Len(s) - 1)) ELSE s

RECURSIVE LStrip(_)
LStrip(s) ==
    IF s # <<>> /\ s[1] \in Whitespace THEN LStrip(Tail(s)) ELSE s

Strip(s) == LStrip(RStrip(s))

\* str.splitlines: the lines of s; "n", "r" and "r" "n" each end a line, and a
\* line end at the very end opens no further line
RECURSIVE SplitLines(_)
SplitLines(s) ==
    IF s = <<>> THEN <<>>
    ELSE IF \A i \in 1..Len(s) : s[i] \notin {"n", "r"} THEN <<s>>
    ELSE LET i == CHOOSE k \in 1..Len(s) :
                     s[k] \in {"n", "r"} /\ \A j \in 1..(k - 1) : s[j] \notin {"n", "r"}
             j == IF s[i] = "r" /\ i < Len(s) /\ s[i + 1] = "n" THEN i + 1 ELSE i
         IN <<SubSeq(s, 1, i - 1)>> \o SplitLines(SubSeq(s, j + 1, Len(s)))

\* all token sequences over alphabet A of length at most k
SeqsUpTo(A, k) == UNION {[1..m -> A] : m \in 0..k}

\* --------------------------------------------------- the pull-request codec

compare_line_by_line(str1, str2) == SplitLines(str1) = SplitLines(str2)

\* wrap_pr_body without the newlines inside the markers
wrap_pr_body_tight(body) ==
    <<"n", "n", pr_body_prefix>> \o body \o <<pr_body_postfix, "n", "n">>

wrap_pr_body(body) ==
    <<"n", "n", pr_body_prefix, "n">> \o body \o <<"n", pr_body_postfix, "n", "n">>

extract_pr_body(body) ==
    IF body = <<>> \/ ~Contains(body, pr_body_prefix) \/ ~Contains(body, pr_body_postfix)
    THEN <<>>
    ELSE Split(Split(body, pr_body_prefix)[2], pr_body_postfix)[1]

update_pr_body(body, new_body) ==
    IF body = <<>> THEN wrap_pr_body(new_body)
    ELSE IF ~Contains(body, pr_body_prefix) \/ ~Contains(body, pr_body_postfix)
    THEN body \o wrap_pr_body(new_body)
    ELSE RStrip(Split(body, pr_body_prefix)[1]) \o wrap_pr_body(new_body)
         \o LStrip(Split(body, pr_body_postfix)[2])

\* ------------------------------------------- the codec applied to any text

BodyChars == {"P", "Q", "n", "s", "a"}
NewChars == {"P", "Q", "n", "a"}

CodecUpdate ==
    /\ cpc = "start"
    /\ cOut' = update_pr_body(cBody, cNew)
    /\ cpc' = "updated"
    /\ UNCHANGED <<cBody, cNew, cExt, cOut2, authVars, ingestVars, tokenVars, concVars>>

CodecExtract ==
    /\ cpc = "updated"
    /\ cExt' = extract_pr_body(cOut)
    /\ cpc' = "extracted"
    /\ UNCHANGED <<cBody, cNew, cOut, cOut2, authVars, ingestVars, tokenVars, concVars>>

\* extract_pr_body on the body as it stands
CodecExtractBody ==
    /\ cpc = "start"
    /\ cExt' = extract_pr_body(cBody)
    /\ cpc' = "extracted_body"
    /\ UNCHANGED <<cBody, cNew, cOut, cOut2, authVars, ingestVars, tokenVars, concVars>>

CodecUpdateAgain ==
    /\ cpc = "updated"
    /\ cOut2' = update_pr_body(cOut, cNew)
    /\ cpc' = "updated_again"
    /\ UNCHANGED <<cBody, cNew, cOut, cExt, authVars, ingestVars, tokenVars, concVars>>

\* ------------------------------------------------- payload authorization

\* re.match(pattern, string): a pattern is the set of the strings it matches
ReMatch(pattern, string) == string \in pattern

NoRequest == [repo |-> "none", branch_suffix |-> "none", files |-> <<>>]

NoException == [status |-> 0, message |-> "none"]

\* validate_ingest_payload going on to the next rule when a file does not match
RECURSIVE validate_fall_through(_, _)
validate_fall_through(allowed, req) ==
    IF allowed = <<>> THEN "payload_mismatch"
    ELSE LET allowed_payload == Head(allowed)
         IN IF /\ ReMatch(allowed_payload.repo, req.repo)
               /\ ReMatch(allowed_payload.branch_suffix, req.branch_suffix)
               /\ \A i \in 1..Len(req.files) :
                     /\ ReMatch(allowed_payload.files.path, req.files[i].path)
                     /\ ReMatch(allowed_payload.files.content, req.files[i].content)
            THEN "ok"
            ELSE validate_fall_through(Tail(allowed), req)

\* validate_ingest_payload without the test of the content pattern
RECURSIVE validate_ignoring_content(_, _)
validate_ignoring_content(allowed, req) ==
    IF allowed = <<>> THEN "payload_mismatch"
    ELSE LET allowed_payload == Head(allowed)
         IN IF /\ ReMatch(allowed_payload.repo, req.repo)
               /\ ReMatch(allowed_payload.branch_suffix, req.branch_suffix)
            THEN IF \E i \in 1..Len(req.files) :
                       ~ReMatch(allowed_payload.files.path, req.files[i].path)
                 THEN "file_mismatch"
                 ELSE "ok"
            ELSE validate_ignoring_content(Tail(allowed), req)

\* utils.py:98-105.  "ok" is return True; the two other results are the two
\* HTTPException(400) the function raises.
RECURSIVE validate_ingest_payload(_, _)
validate_ingest_payload(allowed, req) ==
    IF allowed = <<>> THEN "payload_mismatch"
    ELSE LET allowed_payload == Head(allowed)
         IN IF /\ ReMatch(allowed_payload.repo, req.repo)
               /\ ReMatch(allowed_payload.branch_suffix, req.branch_suffix)
            THEN IF \E i \in 1..Len(req.files) :
                       \/ ~ReMatch(allowed_payload.files.path, req.files[i].path)
                       \/ ~ReMatch(allowed_payload.files.content, req.files[i].content)
                 THEN "file_mismatch"
                 ELSE "ok"
            ELSE validate_ingest_payload(Tail(allowed), req)

AuthRules ==
    [repo : {{"r1"}, {"r1", "r2"}},
     branch_suffix : {{"s1"}},
     files : [path : {{"p1"}, {"p1", "p2"}}, content : {{"j"}, {"j", "x"}}]]

AuthFiles == [path : {"p1", "p2"}, content : {"j", "x"}, transforms : {<<>>}]

AuthPayloads ==
    [repo : {"r1", "r2"}, branch_suffix : {"s1", "s2"}, files : SeqsUpTo(AuthFiles, MaxFiles)]

AuthValidate ==
    /\ apc = "start"
    /\ \E p \in AuthPayloads :
          /\ aPayload' = p
          /\ aResult' = validate_ingest_payload(aRules, p)
    /\ apc' = "validated"
    /\ UNCHANGED <<aRules, codecVars, ingestVars, tokenVars, concVars>>

\* ---------------------------------------------------- the file transforms

\* A file's content is "j" (a JSON document as json.dumps writes it), "y" (the
\* same document as yaml.dump writes it, which json.loads rejects) or "x" (text
\* that neither json.loads nor yaml.safe_load parses).
Failed == "failed"

\* utils.py:143-147: json.loads, then yaml.dump
json2yaml(json_str) == IF json_str = "j" THEN "y" ELSE Failed

\* utils.py:149-153: yaml.safe_load (which reads JSON too), then json.dumps
yaml2json(yaml_str) == IF yaml_str \in {"j", "y"} THEN "j" ELSE Failed

TransformType == {"json2yaml", "yaml2json"}

\* utils.py:159-166: the loop over file.transforms, threading content
RECURSIVE apply_transforms(_, _)
apply_transforms(content, transforms) ==
    IF transforms = <<>> THEN content
    ELSE LET next == IF Head(transforms) = "json2yaml" THEN json2yaml(content)
                     ELSE IF Head(transforms) = "yaml2json" THEN yaml2json(content)
                     ELSE Failed
         IN IF next = Failed THEN Failed ELSE apply_transforms(next, Tail(transforms))

\* the content the loop over file.transforms has reached when a transform
\* raises, or at its end
RECURSIVE reached_content(_, _)
reached_content(content, transforms) ==
    IF transforms = <<>> THEN content
    ELSE LET next == IF Head(transforms) = "json2yaml" THEN json2yaml(content)
                     ELSE yaml2json(content)
         IN IF next = Failed THEN content ELSE reached_content(next, Tail(transforms))

\* transform_file assigning file.content inside the loop, after each transform
transform_file_stepwise(file) ==
    [ok |-> apply_transforms(file.content, file.transforms) # Failed,
     file |-> [file EXCEPT !.content = reached_content(file.content, file.transforms)]]

\* utils.py:155-168: file.content is assigned after the loop, so a transform
\* that raises leaves the file as it was
transform_file(file) ==
    LET content == apply_transforms(file.content, file.transforms)
    IN IF content = Failed THEN [ok |-> FALSE, file |-> file]
       ELSE [ok |-> TRUE, file |-> [file EXCEPT !.content = content]]

\* the loop over payload.files going on past a transform that raises
RECURSIVE transform_files_lenient(_)
transform_files_lenient(files) ==
    IF files = <<>> THEN [ok |-> TRUE, files |-> <<>>]
    ELSE [ok |-> TRUE,
          files |-> <<transform_file(Head(files)).file>> \o transform_files_lenient(Tail(files)).files]

\* main.py:152-153: the loop over payload.files, stopped by the first transform
\* that raises
RECURSIVE transform_files(_)
transform_files(files) ==
    IF files = <<>> THEN [ok |-> TRUE, files |-> <<>>]
    ELSE LET first == transform_file(Head(files))
         IN IF ~first.ok THEN [ok |-> FALSE, files |-> <<first.file>> \o Tail(files)]
            ELSE LET rest == transform_files(Tail(files))
                 IN [ok |-> rest.ok, files |-> <<first.file>> \o rest.files]

\* ------------------------------------------------------------------ ingest

Suffixes == {"s1", "s2"}
Paths == {"p1", "p2"}
NoFile == "absent"

\* os.environ["ALLOWED_INGEST_PAYLOADS"] of the deployment modelled: one rule,
\* repository r1, suffix s1, both paths, content that is JSON or YAML
AllowedIngestPayloads ==
    << [repo |-> {"r1"}, branch_suffix |-> {"s1"},
        files |-> [path |-> Paths, content |-> {"j", "y"}]] >>

\* the files the allowed requests are made of: a new file whose JSON is to be
\* stored as YAML, a file the default branch holds already with other content,
\* a file whose transform raises
Files ==
    { [path |-> "p1", content |-> "j", transforms |-> <<"json2yaml">>],
      [path |-> "p2", content |-> "j", transforms |-> <<>>],
      [path |-> "p2", content |-> "y", transforms |-> <<"json2yaml">>] }

\* requests the rule allows, and one request each with a repository, a suffix
\* and a file content it does not allow
Payloads ==
    [repo : {"r1"}, branch_suffix : {"s1"}, files : SeqsUpTo(Files, MaxFiles)]
    \cup {[repo |-> "r2", branch_suffix |-> "s1", files |-> <<>>],
          [repo |-> "r1", branch_suffix |-> "s2", files |-> <<>>],
          [repo |-> "r1", branch_suffix |-> "s1",
           files |-> <<[path |-> "p1", content |-> "x", transforms |-> <<>>]>>]}

branch_prefix == "repo-ingestion-"

\* main.py:162
BranchName(branch_suffix) == <<branch_prefix, branch_suffix>>

\* the branches a request the rule allows can name
Branches == {BranchName(x) : x \in {y \in Suffixes : \E i \in 1..Len(AllowedIngestPayloads) :
                                      ReMatch(AllowedIngestPayloads[i].branch_suffix, y)}}

\* repo.organization.login of the one organization modelled
OrgLogin == "org"

\* main.py:189
pr_head(branch_name) == <<OrgLogin, ":", branch_name>>

\* main.py:192
pr_title(branch_name) == <<"Create or update files: ", pr_head(branch_name)>>

\* main.py:191: "* <path>\n" per file
RECURSIVE file_list(_)
file_list(files) ==
    IF files = <<>> THEN <<>>
    ELSE <<"*", Head(files).path, "n">> \o file_list(Tail(files))

\* pr_body without the introduction: the list of the files alone
pr_body_list_only(files) == file_list(files)

\* main.py:193-202: the dedented text is a newline, the header lines ("h",
\* which neither starts nor ends with a blank), two newlines; then the list
pr_body(files) == <<"n", "h", "n", "n">> \o file_list(files)

\* the tree of the default branch's tip: p2 is there already, p1 is not
DefaultTree == [x \in Paths |-> IF x = "p2" THEN "y" ELSE NoFile]

Between == pc = "idle"

\* main.py:143-147
IngestStart ==
    /\ Between
    /\ state.num_ingest_requests_received < MaxRequests
    /\ \E p \in Payloads :
          /\ request' = p
          /\ payload' = p
          /\ replay' = IF lastOk = p THEN lastPr ELSE "no"
          /\ retryOf' = IF retryOf = p THEN p ELSE NoRequest
          /\ origin' = IF retryOf = p THEN origin ELSE [refs |-> refs, tree |-> tree, pulls |-> pulls]
    /\ state' = [state EXCEPT !.num_ingest_requests_received = @ + 1]
    /\ pc' = "validate"
    /\ idx' = 0
    /\ existing_file' = NoFile
    /\ prs' = <<>>
    /\ calls' = <<>>
    /\ result' = "none"
    /\ ref_exception' = NoException
    /\ found' = [refs |-> refs, tree |-> tree, pulls |-> pulls]
    /\ UNCHANGED <<remoteVars, lastOk, lastPr, budget, operatorOpened,
                   codecVars, authVars, tokenVars, concVars>>

\* a run that ends in an exception; the caller retries what the remote refused
Raise(exception) ==
    /\ pc' = "error"
    /\ result' = exception
    /\ lastOk' = NoRequest
    /\ lastPr' = "none"
    /\ retryOf' = IF exception \in {"GithubException", "HTTPError"} THEN request ELSE NoRequest

\* main.py:149
IngestValidate ==
    /\ pc = "validate"
    /\ IF validate_ingest_payload(AllowedIngestPayloads, payload) = "ok"
       THEN pc' = "transform" /\ UNCHANGED <<result, lastOk, lastPr, retryOf>>
       ELSE Raise("HTTPException 400")
    /\ UNCHANGED <<state, request, payload, idx, existing_file, prs, calls, remoteVars,
                   found, replay, budget, operatorOpened, origin, ref_exception,
                   codecVars, authVars, tokenVars, concVars>>

\* main.py:152-153
IngestTransform ==
    /\ pc = "transform"
    /\ LET done == transform_files(payload.files)
       IN /\ payload' = [payload EXCEPT !.files = done.files]
          /\ IF done.ok
             THEN pc' = "connect" /\ UNCHANGED <<result, lastOk, lastPr, retryOf>>
             ELSE Raise("transform raised")
    /\ UNCHANGED <<state, request, idx, existing_file, prs, calls, remoteVars,
                   found, replay, budget, operatorOpened, origin, ref_exception,
                   codecVars, authVars, tokenVars, concVars>>

\* main.py:155-159: the token, the repository, its default branch
IngestConnect ==
    /\ pc = "connect"
    /\ calls' = calls \o <<"get_github_token", "get_repo", "get_branch">>
    /\ pc' = "create_git_ref"
    /\ UNCHANGED <<state, request, payload, idx, existing_file, prs, result, remoteVars,
                   historyVars, ref_exception,
                   codecVars, authVars, tokenVars, concVars>>

\* IngestCreateRef moving a branch that exists back to the default branch's tip
IngestCreateRefResetting ==
    /\ pc = "create_git_ref"
    /\ LET branch_name == BranchName(payload.branch_suffix)
       IN /\ refs' = refs \cup {branch_name}
          /\ tree' = [tree EXCEPT ![branch_name] = DefaultTree]
    /\ calls' = Append(calls, "create_git_ref")
    /\ idx' = 1
    /\ pc' = IF payload.files = <<>> THEN "get_pulls" ELSE "get_contents"
    /\ UNCHANGED <<state, request, payload, existing_file, prs, result, pulls, ref_exception,
                   historyVars, codecVars, authVars, tokenVars, concVars>>

\* main.py:162-170: 422 "Reference already exists" is swallowed
IngestCreateRef ==
    /\ pc = "create_git_ref"
    /\ LET branch_name == BranchName(payload.branch_suffix)
       IN IF branch_name \in refs
          THEN /\ ref_exception' = [status |-> 422, message |-> "Reference already exists"]
               /\ UNCHANGED <<refs, tree>>
          ELSE /\ refs' = refs \cup {branch_name}
               /\ tree' = [tree EXCEPT ![branch_name] = DefaultTree]
               /\ UNCHANGED ref_exception
    /\ calls' = Append(calls, "create_git_ref")
    /\ idx' = 1
    /\ pc' = IF payload.files = <<>> THEN "get_pulls" ELSE "get_contents"
    /\ UNCHANGED <<state, request, payload, existing_file, prs, result, pulls,
                   historyVars,
                   codecVars, authVars, tokenVars, concVars>>

\* main.py:175-180: 404 is "no such file"
IngestGetContents ==
    /\ pc = "get_contents"
    /\ existing_file' = tree[BranchName(payload.branch_suffix)][payload.files[idx].path]
    /\ calls' = Append(calls, "get_contents")
    /\ pc' = "write_file"
    /\ UNCHANGED <<state, request, payload, idx, prs, result, remoteVars,
                   historyVars, ref_exception,
                   codecVars, authVars, tokenVars, concVars>>

\* the remote taking every write, whatever blob the writer had fetched
write_accepted_unchecked(current, fetched) == TRUE

\* main.py:183, 186 as the remote answers them: update_file carries
\* existing_file.sha and is accepted when that is the sha of the blob now at
\* the path; create_file carries none and is accepted when no blob is there
write_accepted(current, fetched) == current = fetched

\* main.py:182-186.  A blob's sha is its content's hash, so the fetched content
\* stands for existing_file.sha; the remote refuses an update whose sha is not
\* the blob's, a creation over a file that exists, and a write to a branch
\* that does not exist.
IngestWriteFile ==
    /\ pc = "write_file"
    /\ LET branch_name == BranchName(payload.branch_suffix)
           file == payload.files[idx]
           accepted == /\ branch_name \in refs
                       /\ write_accepted(tree[branch_name][file.path], existing_file)
       IN /\ calls' = Append(calls, IF existing_file # NoFile THEN "update_file" ELSE "create_file")
          /\ IF accepted
             THEN /\ tree' = [tree EXCEPT ![branch_name][file.path] = file.content]
                  /\ idx' = idx + 1
                  /\ pc' = IF idx = Len(payload.files) THEN "get_pulls" ELSE "get_contents"
                  /\ UNCHANGED <<result, lastOk, lastPr, retryOf>>
             ELSE /\ Raise("GithubException")
                  /\ UNCHANGED <<tree, idx>>
    /\ UNCHANGED <<state, request, payload, existing_file, prs, refs, pulls,
                   found, replay, budget, operatorOpened, origin, ref_exception,
                   codecVars, authVars, tokenVars, concVars>>

\* main.py:204: the open pull requests from the head to the default branch
IngestGetPulls ==
    /\ pc = "get_pulls"
    /\ prs' = pulls[BranchName(payload.branch_suffix)]
    /\ calls' = Append(calls, "get_pulls")
    /\ pc' = "reconcile_pull"
    /\ UNCHANGED <<state, request, payload, idx, existing_file, result, remoteVars,
                   historyVars, ref_exception,
                   codecVars, authVars, tokenVars, concVars>>

\* main.py:207: the pull request is up to date
up_to_date(pr, title, body) ==
    /\ pr.title = title
    /\ compare_line_by_line(Strip(extract_pr_body(pr.body)), Strip(body))

\* pull_action without the assert_throws on prs[1]: the first of several is taken
pull_action_first(fetched, title, body) ==
    IF fetched = <<>> THEN "create_pull"
    ELSE IF up_to_date(fetched[1], title, body) THEN "none"
    ELSE "edit"

\* pull_action opening a new pull request where the one listed is out of date
pull_action_recreate(fetched, title, body) ==
    IF fetched = <<>> THEN "create_pull"
    ELSE IF Len(fetched) > 1 THEN "AssertionError"
    ELSE IF up_to_date(fetched[1], title, body) THEN "none"
    ELSE "create_pull"

\* main.py:205-214: prs[0] raising IndexError is the creation path; prs[1] not
\* raising it makes assert_throws raise AssertionError
pull_action(fetched, title, body) ==
    IF fetched = <<>> THEN "create_pull"
    ELSE IF Len(fetched) > 1 THEN "AssertionError"
    ELSE IF up_to_date(fetched[1], title, body) THEN "none"
    ELSE "edit"

\* main.py:205-214.  The remote refuses a pull request from a head that does
\* not exist, and a second open pull request from a head to the same base.
IngestReconcilePull ==
    /\ pc = "reconcile_pull"
    /\ LET branch_name == BranchName(payload.branch_suffix)
           title == pr_title(branch_name)
           body == pr_body(payload.files)
           action == pull_action(prs, title, body)
           refused == /\ action = "create_pull"
                      /\ (branch_name \notin refs \/ pulls[branch_name] # <<>>)
       IN /\ CASE action = "create_pull" /\ ~refused ->
                    /\ pulls' = [pulls EXCEPT ![branch_name] =
                                   Append(@, [title |-> title, body |-> update_pr_body(<<>>, body)])]
                    /\ calls' = Append(calls, "create_pull")
               [] refused ->
                    /\ calls' = Append(calls, "create_pull")
                    /\ UNCHANGED pulls
               [] action = "edit" ->
                    /\ pulls' = [pulls EXCEPT ![branch_name][1] =
                                   [title |-> title, body |-> update_pr_body(prs[1].body, body)]]
                    /\ calls' = Append(calls, "edit")
               [] OTHER -> UNCHANGED <<pulls, calls>>
          /\ IF action = "AssertionError"
             THEN Raise("AssertionError")
             ELSE IF refused
             THEN Raise("GithubException")
             ELSE /\ pc' = "finish"
                  /\ lastPr' = action
                  /\ UNCHANGED <<result, lastOk, retryOf>>
    /\ UNCHANGED <<state, request, payload, idx, existing_file, prs, refs, tree,
                   found, replay, budget, operatorOpened, origin, ref_exception,
                   codecVars, authVars, tokenVars, concVars>>

\* main.py:216-222
IngestFinish ==
    /\ pc = "finish"
    /\ state' = [state EXCEPT !.num_ingest_requests_success = @ + 1]
    /\ pc' = "done"
    /\ result' = "ok"
    /\ lastOk' = request
    /\ UNCHANGED <<request, payload, idx, existing_file, prs, calls, remoteVars,
                   found, lastPr, replay, budget, operatorOpened, origin, retryOf, ref_exception,
                   codecVars, authVars, tokenVars, concVars>>

\* main.py:220-222, or the exception leaving the handler: the run's locals are gone
IngestReturn ==
    /\ pc \in {"done", "error"}
    /\ pc' = "idle"
    /\ request' = NoRequest
    /\ payload' = NoRequest
    /\ idx' = 0
    /\ existing_file' = NoFile
    /\ prs' = <<>>
    /\ calls' = <<>>
    /\ result' = "none"
    /\ ref_exception' = NoException
    /\ replay' = "no"
    /\ found' = [refs |-> refs, tree |-> tree, pulls |-> pulls]
    /\ retryOf' = IF pc = "done" THEN NoRequest ELSE retryOf
    /\ origin' = IF retryOf' = NoRequest THEN [refs |-> refs, tree |-> tree, pulls |-> pulls] ELSE origin
    /\ UNCHANGED <<state, remoteVars, lastOk, lastPr, budget, operatorOpened,
                   codecVars, authVars, tokenVars, concVars>>

\* ------------------------------------------------ the remote refusing a call

\* main.py:155-159: the token request, get_repo or get_branch raises
IngestConnectRefused ==
    /\ pc = "connect"
    /\ \E k \in 1..3 :
          /\ calls' = calls \o SubSeq(<<"get_github_token", "get_repo", "get_branch">>, 1, k)
          /\ Raise(IF k = 1 THEN "HTTPError" ELSE "GithubException")
    /\ UNCHANGED <<state, request, payload, idx, existing_file, prs, remoteVars, ref_exception,
                   found, replay, budget, operatorOpened, origin,
                   codecVars, authVars, tokenVars, concVars>>

\* main.py:164-170: create_git_ref raises for another reason than the branch
\* existing: a 422 of another validation failure (a ref name git does not
\* accept, a commit that is gone), or a 500.  The handler looks at e.status only.
IngestCreateRefRefused ==
    /\ pc = "create_git_ref"
    /\ \E e \in {[status |-> 422, message |-> "Validation Failed"],
                  [status |-> 500, message |-> "Server Error"]} :
          /\ ref_exception' = e
          /\ IF e.status # 422
             THEN /\ Raise("GithubException")
                  /\ UNCHANGED idx
             ELSE /\ idx' = 1
                  /\ pc' = IF payload.files = <<>> THEN "get_pulls" ELSE "get_contents"
                  /\ UNCHANGED <<result, lastOk, lastPr, retryOf>>
    /\ calls' = Append(calls, "create_git_ref")
    /\ UNCHANGED <<state, request, payload, existing_file, prs, remoteVars,
                   found, replay, budget, operatorOpened, origin,
                   codecVars, authVars, tokenVars, concVars>>

\* main.py:175-179: get_contents raises with a status other than 404
IngestGetContentsRefused ==
    /\ pc = "get_contents"
    /\ calls' = Append(calls, "get_contents")
    /\ Raise("GithubException")
    /\ UNCHANGED <<state, request, payload, idx, existing_file, prs, remoteVars, ref_exception,
                   found, replay, budget, operatorOpened, origin,
                   codecVars, authVars, tokenVars, concVars>>

\* main.py:182-186: update_file or create_file raises, nothing written
IngestWriteFileRefused ==
    /\ pc = "write_file"
    /\ calls' = Append(calls, IF existing_file # NoFile THEN "update_file" ELSE "create_file")
    /\ Raise("GithubException")
    /\ UNCHANGED <<state, request, payload, idx, existing_file, prs, remoteVars, ref_exception,
                   found, replay, budget, operatorOpened, origin,
                   codecVars, authVars, tokenVars, concVars>>

\* main.py:204-205: the listing raises
IngestGetPullsRefused ==
    /\ pc = "get_pulls"
    /\ calls' = Append(calls, "get_pulls")
    /\ Raise("GithubException")
    /\ UNCHANGED <<state, request, payload, idx, existing_file, prs, remoteVars, ref_exception,
                   found, replay, budget, operatorOpened, origin,
                   codecVars, authVars, tokenVars, concVars>>

\* main.py:211, 214: pr.edit or create_pull raises, the pull requests as they were
IngestReconcilePullRefused ==
    /\ pc = "reconcile_pull"
    /\ LET branch_name == BranchName(payload.branch_suffix)
           action == pull_action(prs, pr_title(branch_name), pr_body(payload.files))
       IN /\ action \in {"create_pull", "edit"}
          /\ calls' = Append(calls, action)
    /\ Raise("GithubException")
    /\ UNCHANGED <<state, request, payload, idx, existing_file, prs, remoteVars, ref_exception,
                   found, replay, budget, operatorOpened, origin,
                   codecVars, authVars, tokenVars, concVars>>

\* ------------------------------------------------ the operator, between runs

\* Descriptions an operator writes: none, text ending in a blank, a start
\* marker without its end marker, a managed section of the operator's own making
\* between two lines of text.
ExternalBodies ==
    { <<>>,
      <<"a", "s">>,
      <<pr_body_prefix, "a">>,
      <<"a", "n", pr_body_prefix, "a", pr_body_postfix, "n", "a">> }

\* a text saved with CRLF line ends, as a browser's form submits it
RECURSIVE to_crlf(_)
to_crlf(text) ==
    IF text = <<>> THEN <<>>
    ELSE (IF Head(text) = "n" THEN <<"r", "n">> ELSE <<Head(text)>>) \o to_crlf(Tail(text))

OperatorTitles(branch_name) == {pr_title(branch_name), <<"my title">>}

OperatorActs ==
    /\ Between
    /\ budget > 0
    /\ budget' = budget - 1
    /\ lastOk' = NoRequest
    /\ lastPr' = "none"
    /\ retryOf' = NoRequest

OperatorOpenPull ==
    /\ OperatorActs
    /\ \E branch_name \in Branches :
         \E title \in OperatorTitles(branch_name), body \in ExternalBodies :
          /\ pulls' = [pulls EXCEPT ![branch_name] = Append(@, [title |-> title, body |-> body])]
          /\ IF branch_name \in refs
             THEN UNCHANGED <<refs, tree>>
             ELSE /\ refs' = refs \cup {branch_name}
                  /\ tree' = [tree EXCEPT ![branch_name] = DefaultTree]
    /\ operatorOpened' = TRUE
    /\ found' = [refs |-> refs', tree |-> tree', pulls |-> pulls']
    /\ origin' = found'
    /\ UNCHANGED <<state, runVars, replay, codecVars, authVars, tokenVars, concVars>>

OperatorEditBody ==
    /\ OperatorActs
    /\ \E branch_name \in refs :
         \E k \in 1..Len(pulls[branch_name]) :
           LET body == pulls[branch_name][k].body
           IN \E new \in {<<"a", "n">> \o body, body \o <<"n", "a">>, to_crlf(body)} \ {body} :
                 pulls' = [pulls EXCEPT ![branch_name][k].body = new]
    /\ found' = [refs |-> refs, tree |-> tree, pulls |-> pulls']
    /\ origin' = found'
    /\ UNCHANGED <<state, runVars, refs, tree, replay, operatorOpened, codecVars, authVars, tokenVars, concVars>>

OperatorEditTitle ==
    /\ OperatorActs
    /\ \E branch_name \in refs :
         \E k \in 1..Len(pulls[branch_name]) :
           \E new \in OperatorTitles(branch_name) \ {pulls[branch_name][k].title} :
              pulls' = [pulls EXCEPT ![branch_name][k].title = new]
    /\ found' = [refs |-> refs, tree |-> tree, pulls |-> pulls']
    /\ origin' = found'
    /\ UNCHANGED <<state, runVars, refs, tree, replay, operatorOpened, codecVars, authVars, tokenVars, concVars>>

\* closing or merging takes the pull request off the open list
OperatorClosePull ==
    /\ OperatorActs
    /\ \E branch_name \in refs :
         \E k \in 1..Len(pulls[branch_name]) :
           pulls' = [pulls EXCEPT ![branch_name] =
                        SubSeq(@, 1, k - 1) \o SubSeq(@, k + 1, Len(@))]
    /\ found' = [refs |-> refs, tree |-> tree, pulls |-> pulls']
    /\ origin' = found'
    /\ UNCHANGED <<state, runVars, refs, tree, replay, operatorOpened, codecVars, authVars, tokenVars, concVars>>

\* --------------------------------------------------------- the token cache

\* Time is counted in ticks of thirty seconds.  A token is the number of the
\* request that obtained it.

\* utils.py:50: no response is cached; no token is numbered 0
None == [token |-> 0, expires_at |-> 0]

\* utils.py:55: timedelta(minutes=1)
timedelta_minutes_1 == 2

\* the cached token staying usable down to the margin itself
cache_usable_at_margin(cache, utcnow) ==
    cache # None /\ cache.expires_at - utcnow >= timedelta_minutes_1

\* utils.py:55: the condition under which the cached token is returned
cache_usable(cache, utcnow) ==
    cache # None /\ cache.expires_at - utcnow > timedelta_minutes_1

\* utils.py:52-79, the access token request answered: the cached token, or a
\* new one that replaces the cache
GetGithubToken ==
    /\ tpc = "ready"
    /\ IF cache_usable(github_token_cache, now)
       THEN /\ token' = github_token_cache.token
            /\ requested' = FALSE
            /\ UNCHANGED <<github_token_cache, issued>>
       ELSE \E lifetime \in 1..MaxLifetime :
              /\ issued < MaxTokens
              /\ issued' = issued + 1
              /\ github_token_cache' = [token |-> issued + 1, expires_at |-> now + lifetime]
              /\ token' = issued + 1
              /\ requested' = TRUE
    /\ tpc' = "returned"
    /\ UNCHANGED <<now, ingestVars, codecVars, authVars, concVars>>

\* utils.py:73-74: the request for a new token fails and raise_for_status
\* raises; the cache stays as it was
GetGithubTokenRaises ==
    /\ tpc = "ready"
    /\ ~cache_usable(github_token_cache, now)
    /\ requested' = TRUE
    /\ tpc' = "raised"
    /\ UNCHANGED <<github_token_cache, now, issued, token, ingestVars, codecVars, authVars, concVars>>

\* the caller goes on; time may pass before the next call
TokenTick ==
    /\ tpc \in {"ready", "returned", "raised"}
    /\ \E d \in 0..1 :
          /\ now + d <= MaxTime
          /\ now' = now + d
    /\ tpc' = "ready"
    /\ tpc = "ready" => now' # now
    /\ UNCHANGED <<github_token_cache, issued, token, requested, ingestVars, codecVars, authVars, concVars>>

\* ------------------------------------------------------- concurrent runs

\* FastAPI runs ingest, a plain def, in a worker thread per request: the runs
\* share the state dictionary and the repository.  A thread handles one
\* request.  What a run computes on its own locals between two accesses to
\* what is shared is one step.

Threads == 1..MaxThreads

Idle ==
    [pc |-> "idle", payload |-> NoRequest, idx |-> 0, existing_file |-> NoFile,
     prs |-> <<>>, loaded |-> 0, calls |-> <<>>, result |-> "none"]

\* the requests of the concurrent runs: p1 stored as YAML, p1 stored as JSON,
\* a request the rules reject
ThreadPayloads ==
    { [repo |-> "r1", branch_suffix |-> "s1",
       files |-> <<[path |-> "p1", content |-> "j", transforms |-> <<"json2yaml">>]>>],
      [repo |-> "r1", branch_suffix |-> "s1",
       files |-> <<[path |-> "p1", content |-> "j", transforms |-> <<>>]>>],
      [repo |-> "r2", branch_suffix |-> "s1", files |-> <<>>] }

ThreadRaise(t, exception) ==
    threads' = [threads EXCEPT ![t].pc = "error", ![t].result = exception]

ThreadFrame == UNCHANGED <<runVars, historyVars, codecVars, authVars, tokenVars>>

\* main.py:147, the read of state["num_ingest_requests_received"].  The
\* threads are numbered in the order in which their requests arrive.
ThreadLoadReceived(t) ==
    /\ threads[t].pc = "idle"
    /\ \A u \in 1..(t - 1) : threads[u].pc # "idle"
    /\ \E p \in ThreadPayloads :
          threads' = [threads EXCEPT ![t].pc = "store_received", ![t].payload = p,
                                     ![t].loaded = state.num_ingest_requests_received]
    /\ UNCHANGED <<state, remoteVars, writes>>
    /\ ThreadFrame

\* main.py:147, the addition and the assignment
ThreadStoreReceived(t) ==
    /\ threads[t].pc = "store_received"
    /\ state' = [state EXCEPT !.num_ingest_requests_received = threads[t].loaded + 1]
    /\ threads' = [threads EXCEPT ![t].pc = "validate"]
    /\ UNCHANGED <<remoteVars, writes>>
    /\ ThreadFrame

\* main.py:149-159: validation, the transforms, the token, the repository and
\* its default branch
ThreadPrepare(t) ==
    /\ threads[t].pc = "validate"
    /\ LET p == threads[t].payload
           done == transform_files(p.files)
       IN IF validate_ingest_payload(AllowedIngestPayloads, p) # "ok"
          THEN ThreadRaise(t, "HTTPException 400")
          ELSE IF ~done.ok
          THEN threads' = [threads EXCEPT ![t].pc = "error", ![t].result = "transform raised",
                                          ![t].payload.files = done.files]
          ELSE threads' = [threads EXCEPT
                              ![t].pc = "create_git_ref",
                              ![t].payload.files = done.files,
                              ![t].calls = <<"get_github_token", "get_repo", "get_branch">>]
    /\ UNCHANGED <<state, remoteVars, writes>>
    /\ ThreadFrame

\* main.py:162-170
ThreadCreateRef(t) ==
    /\ threads[t].pc = "create_git_ref"
    /\ LET branch_name == BranchName(threads[t].payload.branch_suffix)
       IN IF branch_name \in refs
          THEN UNCHANGED <<refs, tree>>
          ELSE /\ refs' = refs \cup {branch_name}
               /\ tree' = [tree EXCEPT ![branch_name] = DefaultTree]
    /\ threads' = [threads EXCEPT
                      ![t].pc = IF threads[t].payload.files = <<>> THEN "get_pulls" ELSE "get_contents",
                      ![t].idx = 1,
                      ![t].calls = Append(@, "create_git_ref")]
    /\ UNCHANGED <<state, pulls, writes>>
    /\ ThreadFrame

\* main.py:175-180
ThreadGetContents(t) ==
    /\ threads[t].pc = "get_contents"
    /\ LET run == threads[t]
       IN threads' = [threads EXCEPT
                        ![t].pc = "write_file",
                        ![t].existing_file =
                            tree[BranchName(run.payload.branch_suffix)][run.payload.files[run.idx].path],
                        ![t].calls = Append(@, "get_contents")]
    /\ UNCHANGED <<state, remoteVars, writes>>
    /\ ThreadFrame

\* main.py:182-186
ThreadWriteFile(t) ==
    /\ threads[t].pc = "write_file"
    /\ LET run == threads[t]
           branch_name == BranchName(run.payload.branch_suffix)
           file == run.payload.files[run.idx]
           call == IF run.existing_file # NoFile THEN "update_file" ELSE "create_file"
       IN IF write_accepted(tree[branch_name][file.path], run.existing_file)
          THEN /\ tree' = [tree EXCEPT ![branch_name][file.path] = file.content]
               /\ writes' = Append(writes, [thread |-> t, path |-> file.path,
                                             fetched |-> run.existing_file,
                                             replaced |-> tree[branch_name][file.path],
                                             content |-> file.content])
               /\ threads' = [threads EXCEPT
                                 ![t].pc = IF run.idx = Len(run.payload.files)
                                           THEN "get_pulls" ELSE "get_contents",
                                 ![t].idx = @ + 1,
                                 ![t].calls = Append(@, call)]
          ELSE /\ threads' = [threads EXCEPT ![t].pc = "error", ![t].result = "GithubException",
                                             ![t].calls = Append(@, call)]
               /\ UNCHANGED <<tree, writes>>
    /\ UNCHANGED <<state, refs, pulls>>
    /\ ThreadFrame

\* main.py:204
ThreadGetPulls(t) ==
    /\ threads[t].pc = "get_pulls"
    /\ threads' = [threads EXCEPT
                      ![t].pc = "reconcile_pull",
                      ![t].prs = pulls[BranchName(threads[t].payload.branch_suffix)],
                      ![t].calls = Append(@, "get_pulls")]
    /\ UNCHANGED <<state, remoteVars, writes>>
    /\ ThreadFrame

\* main.py:205-214
ThreadReconcilePull(t) ==
    /\ threads[t].pc = "reconcile_pull"
    /\ LET run == threads[t]
           branch_name == BranchName(run.payload.branch_suffix)
           title == pr_title(branch_name)
           body == pr_body(run.payload.files)
           action == pull_action(run.prs, title, body)
           refused == \/ action = "create_pull" /\ pulls[branch_name] # <<>>
                      \/ action = "edit" /\ pulls[branch_name] = <<>>
       IN /\ CASE action = "create_pull" /\ ~refused ->
                    pulls' = [pulls EXCEPT ![branch_name] =
                                Append(@, [title |-> title, body |-> update_pr_body(<<>>, body)])]
               [] action = "edit" /\ ~refused ->
                    pulls' = [pulls EXCEPT ![branch_name][1] =
                                [title |-> title, body |-> update_pr_body(run.prs[1].body, body)]]
               [] OTHER -> UNCHANGED pulls
          /\ threads' = [threads EXCEPT
                            ![t].pc = IF action = "AssertionError" \/ refused THEN "error"
                                      ELSE "load_success",
                            ![t].result = IF action = "AssertionError" THEN "AssertionError"
                                          ELSE IF refused THEN "GithubException"
                                          ELSE @,
                            ![t].calls = IF action \in {"create_pull", "edit"}
                                         THEN Append(@, action) ELSE @]
    /\ UNCHANGED <<state, refs, tree, writes>>
    /\ ThreadFrame

\* main.py:218, the read of state["num_ingest_requests_success"]
ThreadLoadSuccess(t) ==
    /\ threads[t].pc = "load_success"
    /\ threads' = [threads EXCEPT ![t].pc = "store_success",
                                   ![t].loaded = state.num_ingest_requests_success]
    /\ UNCHANGED <<state, remoteVars, writes>>
    /\ ThreadFrame

\* main.py:218-222, the addition and the assignment; the pull request's URL
\* is returned
ThreadStoreSuccess(t) ==
    /\ threads[t].pc = "store_success"
    /\ state' = [state EXCEPT !.num_ingest_requests_success = threads[t].loaded + 1]
    /\ threads' = [threads EXCEPT ![t].pc = "done", ![t].result = "ok"]
    /\ UNCHANGED <<remoteVars, writes>>
    /\ ThreadFrame

\* ------------------------------------------------------- specifications

\* sequential runs of ingest on one repository, the operator acting between runs
Init ==
    /\ state = [num_ingest_requests_received |-> 0, num_ingest_requests_success |-> 0]
    /\ pc = "idle"
    /\ request = NoRequest
    /\ payload = NoRequest
    /\ idx = 0
    /\ existing_file = NoFile
    /\ prs = <<>>
    /\ calls = <<>>
    /\ result = "none"
    /\ ref_exception = NoException
    /\ refs = {}
    /\ tree = [b \in Branches |-> [x \in Paths |-> NoFile]]
    /\ pulls = [b \in Branches |-> <<>>]
    /\ found = [refs |-> {}, tree |-> [b \in Branches |-> [x \in Paths |-> NoFile]],
                pulls |-> [b \in Branches |-> <<>>]]
    /\ lastOk = NoRequest
    /\ lastPr = "none"
    /\ replay = "no"
    /\ budget = MaxOperatorActions
    /\ operatorOpened = FALSE
    /\ origin = [refs |-> {}, tree |-> [b \in Branches |-> [x \in Paths |-> NoFile]],
                 pulls |-> [b \in Branches |-> <<>>]]
    /\ retryOf = NoRequest
    /\ tpc = "off"
    /\ github_token_cache = None
    /\ now = 0
    /\ issued = 0
    /\ token = None.token
    /\ requested = FALSE
    /\ threads = [t \in Threads |-> Idle]
    /\ writes = <<>>
    /\ cpc = "idle"
    /\ cBody = <<>>
    /\ cNew = <<>>
    /\ cOut = <<>>
    /\ cExt = <<>>
    /\ cOut2 = <<>>
    /\ apc = "idle"
    /\ aRules = <<>>
    /\ aPayload = NoRequest
    /\ aResult = "none"

Next ==
    \/ IngestStart
    \/ IngestValidate
    \/ IngestTransform
    \/ IngestConnect
    \/ IngestCreateRef
    \/ IngestGetContents
    \/ IngestWriteFile
    \/ IngestGetPulls
    \/ IngestReconcilePull
    \/ IngestFinish
    \/ IngestReturn
    \/ OperatorOpenPull
    \/ OperatorEditBody
    \/ OperatorEditTitle
    \/ OperatorClosePull

Spec == Init /\ [][Next]_vars

\* The repository as sequential runs find it at first: empty; as an earlier
\* ingest of p1 left it; with a pull request that an operator opened from the
\* working branch, its description holding a start marker and no end marker.
StartingRemotes ==
    LET b == BranchName("s1")
        none == [refs |-> {}, tree |-> [x \in Branches |-> [y \in Paths |-> NoFile]],
                 pulls |-> [x \in Branches |-> <<>>]]
        earlier == <<[path |-> "p1", content |-> "y", transforms |-> <<"json2yaml">>]>>
    IN { none,
         [none EXCEPT !.refs = {b},
                      !.tree[b] = [DefaultTree EXCEPT !["p1"] = "y"],
                      !.pulls[b] = <<[title |-> pr_title(b),
                                      body |-> update_pr_body(<<>>, pr_body(earlier))]>>],
         [none EXCEPT !.refs = {b},
                      !.tree[b] = DefaultTree,
                      !.pulls[b] = <<[title |-> <<"my title">>, body |-> <<pr_body_prefix, "a">>]>>] }

\* sequential runs of ingest, the remote refusing any call
FaultInit ==
    /\ state = [num_ingest_requests_received |-> 0, num_ingest_requests_success |-> 0]
    /\ pc = "idle"
    /\ request = NoRequest
    /\ payload = NoRequest
    /\ idx = 0
    /\ existing_file = NoFile
    /\ prs = <<>>
    /\ calls = <<>>
    /\ result = "none"
    /\ ref_exception = NoException
    /\ found \in StartingRemotes
    /\ refs = found.refs
    /\ tree = found.tree
    /\ pulls = found.pulls
    /\ origin = found
    /\ retryOf = NoRequest
    /\ lastOk = NoRequest
    /\ lastPr = "none"
    /\ replay = "no"
    /\ budget = 0
    /\ operatorOpened = \E b \in Branches : found.pulls[b] # <<>> /\ found.pulls[b][1].title = <<"my title">>
    /\ cpc = "idle"
    /\ cBody = <<>>
    /\ cNew = <<>>
    /\ cOut = <<>>
    /\ cExt = <<>>
    /\ cOut2 = <<>>
    /\ apc = "idle"
    /\ aRules = <<>>
    /\ aPayload = NoRequest
    /\ aResult = "none"
    /\ tpc = "off"
    /\ github_token_cache = None
    /\ now = 0
    /\ issued = 0
    /\ token = None.token
    /\ requested = FALSE
    /\ threads = [t \in Threads |-> Idle]
    /\ writes = <<>>

FaultNext ==
    \/ IngestStart
    \/ IngestValidate
    \/ IngestTransform
    \/ IngestConnect
    \/ IngestConnectRefused
    \/ IngestCreateRef
    \/ IngestCreateRefRefused
    \/ IngestGetContents
    \/ IngestGetContentsRefused
    \/ IngestWriteFile
    \/ IngestWriteFileRefused
    \/ IngestGetPulls
    \/ IngestGetPullsRefused
    \/ IngestReconcilePull
    \/ IngestReconcilePullRefused
    \/ IngestFinish
    \/ IngestReturn

FaultSpec == FaultInit /\ [][FaultNext]_vars

\* concurrent runs of ingest, one per thread, on one repository
ConcInit ==
    /\ threads = [t \in Threads |-> Idle]
    /\ writes = <<>>
    /\ state = [num_ingest_requests_received |-> 0, num_ingest_requests_success |-> 0]
    /\ found \in StartingRemotes
    /\ refs = found.refs
    /\ tree = found.tree
    /\ pulls = found.pulls
    /\ origin = found
    /\ retryOf = NoRequest
    /\ pc = "off"
    /\ request = NoRequest
    /\ payload = NoRequest
    /\ idx = 0
    /\ existing_file = NoFile
    /\ prs = <<>>
    /\ calls = <<>>
    /\ result = "none"
    /\ ref_exception = NoException
    /\ lastOk = NoRequest
    /\ lastPr = "none"
    /\ replay = "no"
    /\ budget = 0
    /\ operatorOpened = FALSE
    /\ cpc = "idle"
    /\ cBody = <<>>
    /\ cNew = <<>>
    /\ cOut = <<>>
    /\ cExt = <<>>
    /\ cOut2 = <<>>
    /\ apc = "idle"
    /\ aRules = <<>>
    /\ aPayload = NoRequest
    /\ aResult = "none"
    /\ tpc = "off"
    /\ github_token_cache = None
    /\ now = 0
    /\ issued = 0
    /\ token = None.token
    /\ requested = FALSE

ConcNext ==
    \E t \in Threads :
        \/ ThreadLoadReceived(t)
        \/ ThreadStoreReceived(t)
        \/ ThreadPrepare(t)
        \/ ThreadCreateRef(t)
        \/ ThreadGetContents(t)
        \/ ThreadWriteFile(t)
        \/ ThreadGetPulls(t)
        \/ ThreadReconcilePull(t)
        \/ ThreadLoadSuccess(t)
        \/ ThreadStoreSuccess(t)

ConcSpec == ConcInit /\ [][ConcNext]_vars

\* update_pr_body and extract_pr_body on every body and every new content
CodecInit ==
    /\ cpc = "start"
    /\ cBody \in SeqsUpTo(BodyChars, MaxBodyLen)
    /\ cNew \in SeqsUpTo(NewChars, MaxNewLen)
    /\ cOut = <<>>
    /\ cExt = <<>>
    /\ cOut2 = <<>>
    /\ apc = "idle"
    /\ aRules = <<>>
    /\ aPayload = NoRequest
    /\ aResult = "none"
    /\ state = [num_ingest_requests_received |-> 0, num_ingest_requests_success |-> 0]
    /\ pc = "off"
    /\ request = NoRequest
    /\ payload = NoRequest
    /\ idx = 0
    /\ existing_file = NoFile
    /\ prs = <<>>
    /\ calls = <<>>
    /\ result = "none"
    /\ ref_exception = NoException
    /\ refs = {}
    /\ tree = [b \in Branches |-> [x \in Paths |-> NoFile]]
    /\ pulls = [b \in Branches |-> <<>>]
    /\ found = [refs |-> {}, tree |-> [b \in Branches |-> [x \in Paths |-> NoFile]],
                pulls |-> [b \in Branches |-> <<>>]]
    /\ lastOk = NoRequest
    /\ lastPr = "none"
    /\ replay = "no"
    /\ budget = 0
    /\ operatorOpened = FALSE
    /\ origin = [refs |-> {}, tree |-> [b \in Branches |-> [x \in Paths |-> NoFile]],
                 pulls |-> [b \in Branches |-> <<>>]]
    /\ retryOf = NoRequest
    /\ tpc = "off"
    /\ github_token_cache = None
    /\ now = 0
    /\ issued = 0
    /\ token = None.token
    /\ requested = FALSE
    /\ threads = [t \in Threads |-> Idle]
    /\ writes = <<>>

CodecNext == CodecUpdate \/ CodecExtract \/ CodecExtractBody \/ CodecUpdateAgain

CodecSpec == CodecInit /\ [][CodecNext]_vars

\* the transform stage on every list of files: every content, every list of
\* transforms
TransformFiles ==
    [path : {"p1"}, content : {"j", "y", "x"}, transforms : SeqsUpTo(TransformType, MaxTransforms)]

TransformInit ==
    /\ pc = "transform"
    /\ payload \in [repo : {"r1"}, branch_suffix : {"s1"}, files : SeqsUpTo(TransformFiles, MaxFiles)]
    /\ request = payload
    /\ state = [num_ingest_requests_received |-> 1, num_ingest_requests_success |-> 0]
    /\ idx = 0
    /\ existing_file = NoFile
    /\ prs = <<>>
    /\ calls = <<>>
    /\ result = "none"
    /\ ref_exception = NoException
    /\ refs = {}
    /\ tree = [b \in Branches |-> [x \in Paths |-> NoFile]]
    /\ pulls = [b \in Branches |-> <<>>]
    /\ found = [refs |-> {}, tree |-> [b \in Branches |-> [x \in Paths |-> NoFile]],
                pulls |-> [b \in Branches |-> <<>>]]
    /\ lastOk = NoRequest
    /\ lastPr = "none"
    /\ replay = "no"
    /\ budget = 0
    /\ operatorOpened = FALSE
    /\ origin = [refs |-> {}, tree |-> [b \in Branches |-> [x \in Paths |-> NoFile]],
                 pulls |-> [b \in Branches |-> <<>>]]
    /\ retryOf = NoRequest
    /\ cpc = "idle"
    /\ cBody = <<>>
    /\ cNew = <<>>
    /\ cOut = <<>>
    /\ cExt = <<>>
    /\ cOut2 = <<>>
    /\ apc = "idle"
    /\ aRules = <<>>
    /\ aPayload = NoRequest
    /\ aResult = "none"
    /\ tpc = "off"
    /\ github_token_cache = None
    /\ now = 0
    /\ issued = 0
    /\ token = None.token
    /\ requested = FALSE
    /\ threads = [t \in Threads |-> Idle]
    /\ writes = <<>>

TransformNext == IngestTransform

TransformSpec == TransformInit /\ [][TransformNext]_vars

\* calls of get_github_token as time passes
TokenInit ==
    /\ tpc = "ready"
    /\ github_token_cache = None
    /\ now = 0
    /\ issued = 0
    /\ token = None.token
    /\ requested = FALSE
    /\ state = [num_ingest_requests_received |-> 0, num_ingest_requests_success |-> 0]
    /\ pc = "off"
    /\ request = NoRequest
    /\ payload = NoRequest
    /\ idx = 0
    /\ existing_file = NoFile
    /\ prs = <<>>
    /\ calls = <<>>
    /\ result = "none"
    /\ ref_exception = NoException
    /\ refs = {}
    /\ tree = [b \in Branches |-> [x \in Paths |-> NoFile]]
    /\ pulls = [b \in Branches |-> <<>>]
    /\ found = [refs |-> {}, tree |-> [b \in Branches |-> [x \in Paths |-> NoFile]],
                pulls |-> [b \in Branches |-> <<>>]]
    /\ lastOk = NoRequest
    /\ lastPr = "none"
    /\ replay = "no"
    /\ budget = 0
    /\ operatorOpened = FALSE
    /\ origin = [refs |-> {}, tree |-> [b \in Branches |-> [x \in Paths |-> NoFile]],
                 pulls |-> [b \in Branches |-> <<>>]]
    /\ retryOf = NoRequest
    /\ cpc = "idle"
    /\ cBody = <<>>
    /\ cNew = <<>>
    /\ cOut = <<>>
    /\ cExt = <<>>
    /\ cOut2 = <<>>
    /\ apc = "idle"
    /\ aRules = <<>>
    /\ aPayload = NoRequest
    /\ aResult = "none"
    /\ threads = [t \in Threads |-> Idle]
    /\ writes = <<>>

TokenNext == GetGithubToken \/ GetGithubTokenRaises \/ TokenTick

TokenSpec == TokenInit /\ [][TokenNext]_vars

\* validate_ingest_payload on every rule list and every request
AuthInit ==
    /\ apc = "start"
    /\ aRules \in SeqsUpTo(AuthRules, MaxRules)
    /\ aPayload = NoRequest
    /\ aResult = "none"
    /\ cpc = "idle"
    /\ cBody = <<>>
    /\ cNew = <<>>
    /\ cOut = <<>>
    /\ cExt = <<>>
    /\ cOut2 = <<>>
    /\ state = [num_ingest_requests_received |-> 0, num_ingest_requests_success |-> 0]
    /\ pc = "off"
    /\ request = NoRequest
    /\ payload = NoRequest
    /\ idx = 0
    /\ existing_file = NoFile
    /\ prs = <<>>
    /\ calls = <<>>
    /\ result = "none"
    /\ ref_exception = NoException
    /\ refs = {}
    /\ tree = [b \in Branches |-> [x \in Paths |-> NoFile]]
    /\ pulls = [b \in Branches |-> <<>>]
    /\ found = [refs |-> {}, tree |-> [b \in Branches |-> [x \in Paths |-> NoFile]],
                pulls |-> [b \in Branches |-> <<>>]]
    /\ lastOk = NoRequest
    /\ lastPr = "none"
    /\ replay = "no"
    /\ budget = 0
    /\ operatorOpened = FALSE
    /\ origin = [refs |-> {}, tree |-> [b \in Branches |-> [x \in Paths |-> NoFile]],
                 pulls |-> [b \in Branches |-> <<>>]]
    /\ retryOf = NoRequest
    /\ tpc = "off"
    /\ github_token_cache = None
    /\ now = 0
    /\ issued = 0
    /\ token = None.token
    /\ requested = FALSE
    /\ threads = [t \in Threads |-> Idle]
    /\ writes = <<>>

AuthNext == AuthValidate

AuthSpec == AuthInit /\ [][AuthNext]_vars

\* ------------------------------------------------------------ the claims

HasMarker(s) == Contains(s, pr_body_prefix) \/ Contains(s, pr_body_postfix)

IsPrefix(p, s) == Len(p) <= Len(s) /\ SubSeq(s, 1, Len(p)) = p
IsSuffix(p, s) == Len(p) <= Len(s) /\ SubSeq(s, Len(s) - Len(p) + 1, Len(s)) = p

\* the text of a body before its first start marker and after its first end marker
BeforeManaged(body) == SubSeq(body, 1, IndexOf(body, pr_body_prefix) - 1)
AfterManaged(body) == SubSeq(body, IndexOf(body, pr_body_postfix) + 1, Len(body))

\* C7 (as claimed): for a body holding both markers, update_pr_body keeps the text
\* before the start marker and the text after the end marker byte for byte.
C7_OutsidePreserved ==
    (cpc = "updated" /\ Contains(cBody, pr_body_prefix) /\ Contains(cBody, pr_body_postfix))
        => /\ IsPrefix(BeforeManaged(cBody), cOut)
           /\ IsSuffix(AfterManaged(cBody), cOut)

\* C8 (as claimed): for a body without markers and any new content,
\* extract_pr_body(update_pr_body(B, M)) is M exactly.
C8_RoundTripExact ==
    (cpc = "extracted" /\ ~HasMarker(cBody)) => cExt = cNew

\* C8 (amended): for a body without markers and a new content without markers,
\* extract_pr_body(update_pr_body(B, M)) is M between the two newlines that
\* wrap_pr_body puts inside the markers.
C8_RoundTripPadded ==
    (cpc = "extracted" /\ ~HasMarker(cBody) /\ ~HasMarker(cNew))
        => cExt = <<"n">> \o cNew \o <<"n">>

C8_Witness ==
    /\ cpc = "extracted"
    /\ cBody # <<>> /\ ~HasMarker(cBody)
    /\ cNew # <<>> /\ ~HasMarker(cNew)
    /\ cExt = <<"n">> \o cNew \o <<"n">>

\* C9 (as claimed): update_pr_body applied with M to its own output with M gives
\* that output again, for every body and every M.
C9_Idempotent ==
    cpc = "updated_again" => cOut2 = cOut

\* the text strictly between the first start marker and the first end marker
FirstPair(body) ==
    LET i == IndexOf(body, pr_body_prefix)
        j == IndexOf(body, pr_body_postfix)
    IN IF i < j THEN SubSeq(body, i + 1, j - 1) ELSE <<>>

\* C16 (as claimed): for a body holding both markers, whatever the number of
\* their occurrences, extract_pr_body returns the text strictly between the
\* first start marker and the first end marker; for an empty body and a body
\* that lacks a marker it returns the empty text.
C16_FirstPair ==
    cpc = "extracted_body"
        => cExt = (IF Contains(cBody, pr_body_prefix) /\ Contains(cBody, pr_body_postfix)
                   THEN FirstPair(cBody)
                   ELSE <<>>)

\* ---- validate_ingest_payload (AuthSpec)

AppliesTo(rule, req) ==
    ReMatch(rule.repo, req.repo) /\ ReMatch(rule.branch_suffix, req.branch_suffix)

Covers(rule, req) ==
    /\ AppliesTo(rule, req)
    /\ \A i \in 1..Len(req.files) :
          /\ ReMatch(rule.files.path, req.files[i].path)
          /\ ReMatch(rule.files.content, req.files[i].content)

\* the rules, by position, whose repository and branch patterns match the request
Applicable(rules, req) == {i \in 1..Len(rules) : AppliesTo(rules[i], req)}

FirstApplicable(rules, req) ==
    CHOOSE i \in Applicable(rules, req) : \A j \in Applicable(rules, req) : i <= j

\* a request is let through when the first rule that applies to it covers it
Authorized(rules, req) ==
    /\ Applicable(rules, req) # {}
    /\ Covers(rules[FirstApplicable(rules, req)], req)

\* C2 (as claimed): a request is authorized exactly when some rule of the list
\* matches its repository, its branch suffix and every file; a rule that a file
\* violates is passed over for the next one.
C2_AnyRuleAuthorizes ==
    apc = "validated"
        => (aResult = "ok" <=> \E i \in 1..Len(aRules) : Covers(aRules[i], aPayload))

\* C2 (amended): the first rule whose repository and branch patterns match
\* decides alone: the request is authorized exactly when that rule matches every
\* file; a file it does not match rejects the request without a look at later
\* rules, and a request no rule applies to is rejected as a whole.
C2_FirstApplicableRuleDecides ==
    apc = "validated"
        => aResult = (IF Applicable(aRules, aPayload) = {} THEN "payload_mismatch"
                      ELSE IF Covers(aRules[FirstApplicable(aRules, aPayload)], aPayload) THEN "ok"
                      ELSE "file_mismatch")

C2_Witness ==
    /\ apc = "validated"
    /\ Len(aRules) = 2
    /\ AppliesTo(aRules[1], aPayload) /\ ~Covers(aRules[1], aPayload)
    /\ Covers(aRules[2], aPayload)
    /\ aResult = "file_mismatch"

\* ---- ingest (Spec)

Issued(call) == \E i \in 1..Len(calls) : calls[i] = call

Times(call) == Cardinality({i \in 1..Len(calls) : calls[i] = call})

Mutating == {"create_git_ref", "create_file", "update_file", "create_pull", "edit"}

NoMutationIssued == \A i \in 1..Len(calls) : calls[i] \notin Mutating

Remote == [refs |-> refs, tree |-> tree, pulls |-> pulls]

Running == pc \notin {"idle", "off"}

WorkingBranch == BranchName(request.branch_suffix)

\* C1 (as claimed): a run that repeats the request of the successful run before
\* it, nothing else having touched the repository, writes no file and creates or
\* edits no pull request.
C1_ReplayWritesNothing ==
    replay # "no"
        => /\ ~Issued("create_file") /\ ~Issued("update_file")
           /\ ~Issued("create_pull") /\ ~Issued("edit")

\* C3: a run whose request the rules reject has issued no remote call, has left
\* the repository as it found it, and past validation has ended in the 400 error.
C3_UnauthorizedNoRemoteCall ==
    (Running /\ ~Authorized(AllowedIngestPayloads, request))
        => /\ calls = <<>>
           /\ Remote = found
           /\ pc \in {"validate", "error"}
           /\ pc = "error" => result = "HTTPException 400"

C3_Witness ==
    /\ pc = "error"
    /\ result = "HTTPException 400"
    /\ \E i \in 1..Len(request.files) :
          /\ ReMatch(AllowedIngestPayloads[1].files.path, request.files[i].path)
          /\ ~ReMatch(AllowedIngestPayloads[1].files.content, request.files[i].content)
    /\ AppliesTo(AllowedIngestPayloads[1], request)
    /\ calls = <<>>

AllTransformsSucceed == \A i \in 1..Len(request.files) : transform_file(request.files[i]).ok

\* C4: a run issues a mutating call only when the transforms of every file of
\* the request succeed; when those of some file fail the run never gets past the
\* transform stage, ends in an error and leaves the repository as it found it.
C4_TransformGate ==
    /\ ~NoMutationIssued => AllTransformsSucceed
    /\ (Running /\ ~AllTransformsSucceed)
          => /\ pc \in {"validate", "transform", "error"}
             /\ NoMutationIssued
             /\ Remote = found

C4_Witness ==
    /\ pc = "error"
    /\ result = "transform raised"
    /\ Len(request.files) = 2
    /\ transform_file(request.files[1]).ok
    /\ ~transform_file(request.files[2]).ok
    /\ Remote = found

\* C5: a run whose listing holds more than one pull request ends in the
\* AssertionError, has created and edited no pull request and leaves the pull
\* requests as it found them.
C5_DuplicatePullsFail ==
    (pc \in {"finish", "done", "error"} /\ Len(prs) > 1)
        => /\ pc = "error"
           /\ result = "AssertionError"
           /\ ~Issued("create_pull") /\ ~Issued("edit")
           /\ pulls = found.pulls

C5_Witness ==
    /\ pc = "error"
    /\ result = "AssertionError"
    /\ Len(prs) = 2
    /\ pulls = found.pulls

\* C6: while the operator has opened no pull request, no head has more than one
\* open pull request; and a run creates one only when its listing was empty.
C6_AtMostOnePull ==
    /\ ~operatorOpened => \A b \in Branches : Len(pulls[b]) <= 1
    /\ Issued("create_pull") => prs = <<>>

C6_Witness ==
    /\ pc = "done"
    /\ state.num_ingest_requests_success = 2
    /\ ~operatorOpened
    /\ ~Issued("create_pull")
    /\ Len(prs) = 1
    /\ \A b \in Branches : Len(pulls[b]) = 1

\* equal line by line, blank space around the text not counting
LineEqual(a, b) == SplitLines(Strip(a)) = SplitLines(Strip(b))

\* C10 (as claimed): with exactly one pull request listed, no edit is issued
\* exactly when its title is the desired one and its managed section equals the
\* desired body line by line; otherwise one edit carries the desired title and
\* update_pr_body(existing body, desired body); and a run that repeats the
\* request of a run which created or edited the pull request issues no edit.
C10_UpdateDecision ==
    (pc \in {"finish", "done"} /\ Len(prs) = 1)
        => LET title == pr_title(WorkingBranch)
               body == pr_body(payload.files)
               same == /\ prs[1].title = title
                       /\ LineEqual(extract_pr_body(prs[1].body), body)
           IN /\ ~Issued("edit") <=> same
              /\ ~same => /\ Times("edit") = 1
                          /\ pulls[WorkingBranch][1] =
                                [title |-> title, body |-> update_pr_body(prs[1].body, body)]
              /\ replay \in {"create_pull", "edit"} => ~Issued("edit")

\* ---- the transform stage (TransformSpec)

Convert(type, content) == IF type = "json2yaml" THEN json2yaml(content) ELSE yaml2json(content)

\* the last transform of the list applied to what the transforms before it give
RECURSIVE Threaded(_, _)
Threaded(content, transforms) ==
    IF transforms = <<>> THEN content
    ELSE LET before == Threaded(content, SubSeq(transforms, 1, Len(transforms) - 1))
         IN IF before = Failed THEN Failed ELSE Convert(transforms[Len(transforms)], before)

Fails(file) == Threaded(file.content, file.transforms) = Failed

\* the first file of the list one of whose transforms fails, 0 when there is none
FirstFailing(files) ==
    IF \E i \in 1..Len(files) : Fails(files[i])
    THEN CHOOSE i \in 1..Len(files) : Fails(files[i]) /\ \A j \in 1..(i - 1) : ~Fails(files[j])
    ELSE 0

\* C19: after the transform stage every file before the first failing one holds
\* its transforms applied left to right, each to the output of the one before;
\* the failing file holds its original content, whatever its earlier transforms
\* gave; the files after it are as received; and the stage raises exactly when
\* some file fails.
C19_TransformAtomic ==
    pc \in {"connect", "error"}
        => LET k == FirstFailing(request.files)
           IN /\ pc = "error" <=> k # 0
              /\ Len(payload.files) = Len(request.files)
              /\ \A i \in 1..Len(request.files) :
                    payload.files[i] =
                        IF k = 0 \/ i < k
                        THEN [request.files[i] EXCEPT
                                !.content = Threaded(request.files[i].content, request.files[i].transforms)]
                        ELSE request.files[i]

C19_Witness ==
    /\ pc = "error"
    /\ Len(request.files) = 2
    /\ Len(request.files[1].transforms) = 2
    /\ payload.files[1].content # request.files[1].content
    /\ Len(request.files[2].transforms) = 2
    /\ Convert(request.files[2].transforms[1], request.files[2].content) \notin
          {Failed, request.files[2].content}
    /\ payload.files[2] = request.files[2]

\* ---- get_github_token (TokenSpec)

\* C17: a call of get_github_token that finds a token cached whose time to
\* expiry is strictly greater than the margin returns that token, asks the remote
\* for nothing and leaves the cache; a call in any other case (nothing cached,
\* or a time to expiry at or below the margin) asks for a new token and, when
\* it returns, returns a token never issued before, which is now the cached
\* one; when the request fails the call raises and the cache is left.
C17_TokenCacheExpiry ==
    [][ LET cached == github_token_cache # None
            remaining == github_token_cache.expires_at - now
            hit == cached /\ remaining > timedelta_minutes_1
        IN /\ (tpc' = "returned" /\ hit)
                 => /\ token' = github_token_cache.token
                    /\ ~requested'
                    /\ github_token_cache' = github_token_cache
                    /\ issued' = issued
           /\ (tpc' = "returned" /\ ~hit)
                 => /\ requested'
                    /\ issued' = issued + 1
                    /\ token' = issued'
                    /\ github_token_cache'.token = token'
                    /\ github_token_cache' # github_token_cache
           /\ tpc' = "raised" => (~hit /\ requested' /\ github_token_cache' = github_token_cache)
      ]_vars

\* the cached token returned one tick before its time to expiry comes down to
\* the margin
C17_Witness ==
    /\ tpc = "returned"
    /\ ~requested
    /\ github_token_cache # None
    /\ token = github_token_cache.token
    /\ github_token_cache.expires_at - now = timedelta_minutes_1 + 1
    /\ now > 0

\* ---- the create path (Spec)

\* a successful run of a one-file request that found no working branch, no
\* pull request for it, and whose path the default branch does not hold
CreatePath ==
    /\ pc = "done"
    /\ Len(request.files) = 1
    /\ WorkingBranch \notin found.refs
    /\ found.pulls[WorkingBranch] = <<>>
    /\ DefaultTree[request.files[1].path] = NoFile

\* what the create path does apart from the pull request's body: one branch
\* creation, of the branch named by prefix and suffix, at the default branch's
\* tip; one file creation and no update; one pull request created and none
\* edited, its title holding the head ref
CreatePathCalls ==
    /\ Times("create_git_ref") = 1
    /\ WorkingBranch = <<"repo-ingestion-", request.branch_suffix>>
    /\ refs = found.refs \cup {WorkingBranch}
    /\ \A x \in Paths \ {request.files[1].path} : tree[WorkingBranch][x] = DefaultTree[x]
    /\ Times("create_file") = 1
    /\ ~Issued("update_file")
    /\ tree[WorkingBranch][request.files[1].path] = payload.files[1].content
    /\ Times("create_pull") = 1
    /\ ~Issued("edit")
    /\ Len(pulls[WorkingBranch]) = 1
    /\ pulls[WorkingBranch][1].title = <<"Create or update files: ", <<OrgLogin, ":", WorkingBranch>>>>

\* C15 (as claimed): on the create path the calls are as above and the body of
\* the pull request is the file list between the start and the end marker.
C15_CreatePathListOnly ==
    CreatePath
        => /\ CreatePathCalls
           /\ pulls[WorkingBranch][1].body =
                 <<"n", "n", pr_body_prefix, "n">>
                 \o <<"*", request.files[1].path, "n">>
                 \o <<"n", pr_body_postfix, "n", "n">>

\* C15 (amended): on the create path the calls are as above and the body of the
\* pull request is, between the start and the end marker, the introduction
\* followed by the file list.
C15_CreatePath ==
    CreatePath
        => /\ CreatePathCalls
           /\ pulls[WorkingBranch][1].body =
                 <<"n", "n", pr_body_prefix, "n">>
                 \o <<"n", "h", "n", "n">> \o <<"*", request.files[1].path, "n">>
                 \o <<"n", pr_body_postfix, "n", "n">>

C15_Witness ==
    /\ CreatePath
    /\ found.refs = {}
    /\ calls = <<"get_github_token", "get_repo", "get_branch", "create_git_ref",
                 "get_contents", "create_file", "get_pulls", "create_pull">>

\* ---- the remote refusing calls (FaultSpec)

LastCall == IF calls = <<>> THEN "none" ELSE calls[Len(calls)]

AlreadyExists == [status |-> 422, message |-> "Reference already exists"]

\* C11 (as claimed): a branch creation refused because the reference exists is
\* taken for success: the run goes on to the file stage with the branch as it
\* was; a branch creation that fails for any other reason, another validation
\* failure included, ends the run in an error at once, no file fetched or
\* written and no pull request listed, created or edited.
C11_BranchErrors ==
    /\ ref_exception = AlreadyExists
          => /\ ~(pc = "error" /\ LastCall = "create_git_ref")
             /\ LastCall = "create_git_ref"
                   => (pc \in {"get_contents", "get_pulls"} /\ Remote = found)
    /\ ref_exception \notin {NoException, AlreadyExists}
          => /\ pc = "error"
             /\ LastCall = "create_git_ref"
             /\ Remote = found

\* the call that stands at each position of a run's calls, given the number of
\* its files
ExpectedCalls(i, n) ==
    IF i <= 3 THEN {<<"get_github_token", "get_repo", "get_branch">>[i]}
    ELSE IF i = 4 THEN {"create_git_ref"}
    ELSE IF i <= 4 + 2 * n
         THEN (IF (i - 4) % 2 = 1 THEN {"get_contents"} ELSE {"create_file", "update_file"})
    ELSE IF i = 5 + 2 * n THEN {"get_pulls"}
    ELSE IF i = 6 + 2 * n THEN {"create_pull", "edit"}
    ELSE {}

StagesInOrder ==
    \A i \in 1..Len(calls) : calls[i] \in ExpectedCalls(i, Len(payload.files))

\* a tree with the files of a list written over it, first to last
RECURSIVE Overwrite(_, _)
Overwrite(base, files) ==
    IF files = <<>> THEN base
    ELSE Overwrite([base EXCEPT ![Head(files).path] = Head(files).content], Tail(files))

\* the files written are the first of the request, in its order, over the
\* branch as the run found or created it; what is written stays written
FilesInOrder ==
    (Running /\ idx >= 1 /\ WorkingBranch \in refs)
        => LET base == IF WorkingBranch \in found.refs THEN found.tree[WorkingBranch]
                       ELSE DefaultTree
           IN tree[WorkingBranch] = Overwrite(base, SubSeq(payload.files, 1, idx - 1))

\* C13 (as claimed): the calls of a run stand in the order of the stages, the
\* files in the order of the request; a failure at any stage, a branch creation
\* refused for another reason than the branch existing included, ends the run
\* with the call that failed as its last; what was written before stays; and a
\* run that ended in an error returned no pull request.
C13_StageOrderFailFast ==
    /\ StagesInOrder
    /\ FilesInOrder
    /\ ref_exception \notin {NoException, AlreadyExists}
          => (pc = "error" /\ LastCall = "create_git_ref")
    /\ pc = "error" => (result # "ok" /\ Len(pulls[BranchName("s1")]) = Len(found.pulls[BranchName("s1")]))

\* the repository after one successful run of a request on a given repository
ExpectedRemote(remote, req) ==
    LET b == BranchName(req.branch_suffix)
        files == [i \in 1..Len(req.files) |->
                    [req.files[i] EXCEPT !.content = Threaded(req.files[i].content, req.files[i].transforms)]]
        title == <<"Create or update files: ", <<OrgLogin, ":", b>>>>
        body == pr_body(files)
    IN [refs |-> remote.refs \cup {b},
        tree |-> [remote.tree EXCEPT ![b] =
                    Overwrite(IF b \in remote.refs THEN remote.tree[b] ELSE DefaultTree, files)],
        pulls |-> [remote.pulls EXCEPT ![b] =
                    IF @ = <<>> THEN <<[title |-> title, body |-> update_pr_body(<<>>, body)]>>
                    ELSE IF up_to_date(@[1], title, body) THEN @
                    ELSE <<[title |-> title, body |-> update_pr_body(@[1].body, body)]>>]]

\* C14: when a run succeeds that retries a request whose earlier runs a remote
\* failure aborted, the repository is what one successful run of the request
\* would have made of the repository the first of those runs found: the same
\* branch, the same content at every path, one pull request with the same title
\* and body.
C14_ConvergeOnRetry ==
    (pc = "done" /\ retryOf = request)
        => /\ Remote = ExpectedRemote(origin, request)
           /\ Len(pulls[WorkingBranch]) = 1

C14_Witness ==
    /\ pc = "done"
    /\ retryOf = request
    /\ Len(request.files) = 2
    /\ origin.refs = {}
    /\ found.refs # {}
    /\ found.tree # origin.tree
    /\ found.tree # tree
    /\ found.pulls = origin.pulls

\* ---- concurrent runs (ConcSpec)

\* the writes accepted at a path, in the order the remote took them
WritesAt(x) == SelectSeq(writes, LAMBDA w : w.path = x)

FileCalls(t) ==
    Cardinality({i \in 1..Len(threads[t].calls) :
                    threads[t].calls[i] \in {"create_file", "update_file"}})

AcceptedFrom(t) == Cardinality({i \in 1..Len(writes) : writes[i].thread = t})

\* C12: every write the remote accepted replaced the very blob its run had
\* fetched at that path (no blob, for a creation); the branch holds at each path
\* what the last accepted write put there; and a run one of whose writes the
\* remote refused has ended in the GithubException with that write as its last
\* call, issuing it once.
C12_CompareAndSwap ==
    /\ \A i \in 1..Len(writes) : writes[i].replaced = writes[i].fetched
    /\ \A x \in Paths :
          LET at == WritesAt(x)
              b == BranchName("s1")
          IN at # <<>> => tree[b][x] = at[Len(at)].content
    /\ \A t \in Threads :
          /\ FileCalls(t) > AcceptedFrom(t)
                => /\ threads[t].pc = "error"
                   /\ threads[t].result = "GithubException"
                   /\ FileCalls(t) = AcceptedFrom(t) + 1
                   /\ threads[t].calls[Len(threads[t].calls)] \in {"create_file", "update_file"}
          /\ threads[t].pc = "done" => FileCalls(t) = Len(threads[t].payload.files)

\* two runs fetched the same blob of a path and wrote different contents: one
\* write was accepted and that run went on to succeed, the other was refused
C12_Witness ==
    \E t, u \in Threads :
        /\ t # u
        /\ threads[t].pc = "done"
        /\ threads[u].pc = "error"
        /\ threads[u].result = "GithubException"
        /\ Len(writes) = 1
        /\ writes[1].thread = t
        /\ writes[1].fetched # NoFile
        /\ threads[u].existing_file = writes[1].fetched
        /\ threads[u].payload.files[1].path = writes[1].path
        /\ threads[u].payload.files[1].content # writes[1].content
        /\ tree[BranchName("s1")][writes[1].path] = writes[1].content

Quiet(at) == \A t \in Threads : threads[t].pc # at

\* C18 (as claimed): in every state, whatever the interleaving of the runs,
\* the success counter is at most the received counter; with no run between the
\* read and the write of its increment, the received counter is the number of
\* calls of ingest and the success counter the number of runs that reached the
\* end without an error.
C18_Counters ==
    /\ state.num_ingest_requests_success <= state.num_ingest_requests_received
    /\ Quiet("store_received")
          => state.num_ingest_requests_received =
                Cardinality({t \in Threads : threads[t].pc # "idle"})
    /\ Quiet("store_success")
          => state.num_ingest_requests_success =
                Cardinality({t \in Threads : threads[t].pc = "done"})

====
